---------------------------- MODULE Spec2Model ----------------------------
(***************************************************************************)
(* Model of experiment/models/common.py: rand_corr_vine,                   *)
(* calc_input_param_lin_reg and calc_input_param_classification.           *)
(*                                                                         *)
(* Numbers.  The calibration functions are modelled in exact arithmetic on *)
(* values of the form (n/d)*sqrt(r) (records [n, d, r], kept in canonical  *)
(* form), which is closed under every operation the two functions apply to *)
(* rational coefficients; a division by zero gives the single value        *)
(* NonFinite (numpy's inf/nan).  rand_corr_vine adds products of square    *)
(* roots, so it is modelled in fixed point with FIX units per 1.0 and a    *)
(* rounded square root.  Coefficient arrays are real valued (float64), as  *)
(* the docstrings state.                                                   *)
(***************************************************************************)
EXTENDS Integers, Sequences, FiniteSets, TLC

\* ------------------------------------------------------------ bounds
\* Largest d of a rand_corr_vine call.
MaxDim == 4
\* Largest number of groups J (length of alpha, rows of beta).
MaxJ == 3
\* Largest number of input dimensions D (last axis of beta).
MaxD == 2

\* ------------------------------------------------ exact arithmetic
AbsInt(x) == IF x < 0 THEN -x ELSE x

RECURSIVE GCD(_, _)
GCD(a, b) == IF b = 0 THEN a ELSE GCD(b, a % b)

\* The largest s with s*s dividing r (r >= 1).
SqPart(r) ==
    LET S == {s \in 1..r : s * s <= r /\ r % (s * s) = 0}
    IN  CHOOSE s \in S : \A t \in S : t <= s

\* numpy's inf and nan, as one value.
NonFinite == [n |-> 1, d |-> 0, r |-> 1]

\* (n/d)*sqrt(r) in canonical form: d > 0, gcd(n, d) = 1, r square free.
Reduced(n, d, r, g) == [n |-> n \div g, d |-> d \div g, r |-> r]
Signed(n, d, r) == Reduced(n, d, r, GCD(AbsInt(n), d))
Rooted(n, d, r, s) ==
    Signed(IF d < 0 THEN -(n * s) ELSE n * s, AbsInt(d), r \div (s * s))
Norm(n, d, r) ==
    IF d = 0 \/ r < 0 THEN NonFinite
    ELSE IF n = 0 \/ r = 0 THEN [n |-> 0, d |-> 1, r |-> 1]
    ELSE Rooted(n, d, r, SqPart(r))

Rat(n, d) == Norm(n, d, 1)
Num(k) == Rat(k, 1)
IsFinite(x) == x.d # 0

Mul(x, y) ==
    IF ~IsFinite(x) \/ ~IsFinite(y) THEN NonFinite
    ELSE Norm(x.n * y.n, x.d * y.d, x.r * y.r)

\* x / y; 1/((n/d)*sqrt(r)) = d*sqrt(r)/(n*r).
Div(x, y) ==
    IF ~IsFinite(x) \/ ~IsFinite(y) THEN NonFinite
    ELSE Norm(x.n * y.d, x.d * y.n * y.r, x.r * y.r)

\* Defined for operands with the same radical (or a zero operand) only.
Add(x, y) ==
    CASE ~IsFinite(x) \/ ~IsFinite(y) -> NonFinite
      [] x.n = 0 -> y
      [] y.n = 0 -> x
      [] x.r = y.r -> Norm(x.n * y.d + y.n * x.d, x.d * y.d, x.r)

Neg(x) == IF IsFinite(x) THEN [x EXCEPT !.n = -x.n] ELSE x
Sub(x, y) == Add(x, Neg(y))
AbsV(x) == IF IsFinite(x) THEN [x EXCEPT !.n = AbsInt(x.n)] ELSE x

\* Square root of a rational: sqrt(n/d) = sqrt(n*d)/d.
Sqrt(x) ==
    CASE ~IsFinite(x) -> NonFinite
      [] x.n < 0 -> NonFinite
      [] x.r = 1 -> Norm(1, x.d, x.n * x.d)

\* x < y for two rationals; a comparison with nan is false.
Less(x, y) == IsFinite(x) /\ IsFinite(y) /\ x.n * y.d < y.n * x.d

Zero == Num(0)
One == Num(1)
Two == Num(2)
\* ------------------------------------------------------------ arrays
\* An ndarray: its shape and its elements in row-major order.  A Python or
\* numpy scalar is an array of shape <<>>.
Arr0(x) == [shape |-> <<>>, v |-> <<x>>]
Arr1(s) == [shape |-> <<Len(s)>>, v |-> s]

RECURSIVE Flatten(_)
Flatten(rows) == IF rows = <<>> THEN <<>> ELSE Head(rows) \o Flatten(Tail(rows))

\* A matrix from its rows, each of length nc.
Arr2(rows, nc) == [shape |-> <<Len(rows), nc>>, v |-> Flatten(rows)]

\* Python's None.
None == [shape |-> <<0 - 1>>, v |-> <<>>]

Ndim(a) == Len(a.shape)
Front(s) == SubSeq(s, 1, Len(s) - 1)
LastAxis(a) == a.shape[Len(a.shape)]

RECURSIVE Prod(_)
Prod(s) == IF s = <<>> THEN 1 ELSE Head(s) * Prod(Tail(s))

\* The array seen as rows along its last axis.
NRows(a) == Prod(Front(a.shape))
RowOf(a, j) == SubSeq(a.v, (j - 1) * LastAxis(a) + 1, j * LastAxis(a))

RECURSIVE SumSeq(_)
SumSeq(s) == IF s = <<>> THEN Zero ELSE Add(Head(s), SumSeq(Tail(s)))

\* Elementwise operations.
Square(x) == Mul(x, x)
np_abs(a) == [a EXCEPT !.v = [k \in 1..Len(a.v) |-> AbsV(a.v[k])]]
np_square(a) == [a EXCEPT !.v = [k \in 1..Len(a.v) |-> Square(a.v[k])]]
np_sqrt(a) == [a EXCEPT !.v = [k \in 1..Len(a.v) |-> Sqrt(a.v[k])]]
\* array op scalar
Scale(a, c) == [a EXCEPT !.v = [k \in 1..Len(a.v) |-> Mul(a.v[k], c)]]
\* scalar / array
DivideInto(c, a) == [a EXCEPT !.v = [k \in 1..Len(a.v) |-> Div(c, a.v[k])]]
\* a * b where b has a's shape or is one row broadcast over a's rows
MulElem(a, b) ==
    [a EXCEPT !.v = [k \in 1..Len(a.v) |->
        Mul(a.v[k], b.v[((k - 1) % Len(b.v)) + 1])]]

\* np.sum(a, axis=-1)
SumLast(a) ==
    [shape |-> Front(a.shape), v |-> [j \in 1..NRows(a) |-> SumSeq(RowOf(a, j))]]
\* np.sum(a)
SumAll(a) == Arr0(SumSeq(a.v))

\* a.dot(S) for a D x D matrix S: each row of a times S.
DotRow(row, S) ==
    [c \in 1..S.shape[2] |->
        SumSeq([q \in 1..Len(row) |-> Mul(row[q], S.v[(q - 1) * S.shape[2] + c])])]
Dot(a, S) ==
    [shape |-> Front(a.shape) \o <<S.shape[2]>>,
     v |-> Flatten([j \in 1..NRows(a) |-> DotRow(RowOf(a, j), S)])]

\* a[:, 0] of a matrix, a[0] of a vector or a matrix, a[j] of a vector
Col0(a) == [shape |-> <<a.shape[1]>>,
            v |-> [j \in 1..a.shape[1] |-> a.v[(j - 1) * a.shape[2] + 1]]]
Row0(a) == [shape |-> Tail(a.shape), v |-> SubSeq(a.v, 1, Prod(Tail(a.shape)))]
\* np.squeeze(a): the axes of length 1 are dropped
Squeeze(a) == [a EXCEPT !.shape = SelectSeq(a.shape, LAMBDA n : n # 1)]
\* a[np.newaxis]
NewAxis(a) == [a EXCEPT !.shape = <<1>> \o a.shape]
\* ------------------------------------------------- module constants
\* The module's globals (lines 15-29), as the values Python holds for them;
\* the values computed with erfinv, logit and sqrt are rounded to 3 decimals.
R_SQUARED == Rat(1, 2)
P_0 == Rat(1, 5)
GAMMA_0 == Rat(1, 100)
SIGMA_F0 == Rat(1, 4)
ERFINVGAMMA0 == Rat(0 - 1645, 1000)
LOGITP0 == Rat(0 - 1386, 1000)
DELTA_MAX == Rat(805, 1000)

ModuleNames ==
    {"R_SQUARED", "P_0", "GAMMA_0", "SIGMA_F0", "ERFINVGAMMA0", "LOGITP0", "DELTA_MAX"}
ModuleValue(name) ==
    CASE name = "R_SQUARED" -> R_SQUARED
      [] name = "P_0" -> P_0
      [] name = "GAMMA_0" -> GAMMA_0
      [] name = "SIGMA_F0" -> SIGMA_F0
      [] name = "ERFINVGAMMA0" -> ERFINVGAMMA0
      [] name = "LOGITP0" -> LOGITP0
      [] name = "DELTA_MAX" -> DELTA_MAX

\* --------------------------------------------------------------- heap
\* Every object a call can reach: the caller's arguments, the module's globals
\* and the arrays the call allocates.  A local variable is the name of the
\* buffer it is bound to; an in-place operation writes that buffer.
ArgNames == {"alpha", "beta", "sigma", "Sigma_x"}
LocalNames == {"out", "mu_x", "sigma_x", "ssbeta"}
BufNames == ArgNames \cup ModuleNames \cup LocalNames

Store(h, buf, val) == [h EXCEPT ![buf] = val]
\* A module global's value, read at the time of use.
G(h, name) == h[name].v[1]
\* What is left when the call ends: its local arrays are dropped.
DropLocals(h) == [b \in BufNames |-> IF b \in LocalNames THEN None ELSE h[b]]

\* A slip: np.abs taken to work in place, on the operand's own buffer.
AbsBuf_alias(local, operand) == operand

\* np.abs(x), x.dot(S) and np.sum(x) return a new array: the local `local` is
\* bound to a buffer of its own, not to the operand's.
AbsBuf(local, operand) == local
DotBuf(local, operand) == local
SumBuf(local, operand) == local

\* What a call gives back: the heap it leaves and its result.
Return(h, mu, sig) ==
    [heap |-> DropLocals(h), status |-> "ok", mu_x |-> mu, sigma_x |-> sig]
Raise(h, exc) ==
    [heap |-> DropLocals(h), status |-> exc, mu_x |-> None, sigma_x |-> None]

\* In-place operations on the buffer of a local.
\*   buf *= c
InPlaceScale(h, buf, c) == Store(h, buf, Scale(h[buf], c))
\* A slip: the statement `x *= beta` left out.
InPlaceMul_skipped(h, buf, b) == h

\*   buf *= b
InPlaceMul(h, buf, b) == Store(h, buf, MulElem(h[buf], b))
\*   np.sqrt(buf, out=buf)
InPlaceSqrt(h, buf) == Store(h, buf, np_sqrt(h[buf]))
\*   np.divide(c, buf, out=buf)
InPlaceDivide(h, buf, c) == Store(h, buf, DivideInto(c, h[buf]))
\*   x = np.sum(t, axis=-1)
SumInto(h, x, t) == Store(h, SumBuf(x, t), SumLast(h[t]))

\* The quadratic form every branch computes into local `x`:
\*     if Sigma_x is None: x = np.sum(np.square(beta), axis=-1)
\*     else: x = beta.dot(Sigma_x); x *= beta; x = np.sum(x, axis=-1)
QuadFormNone(h, x, beta) == Store(h, SumBuf(x, "beta"), SumLast(np_square(beta)))
QuadFormSigma(h, x, beta) ==
    SumInto(InPlaceMul(Store(h, DotBuf(x, "beta"), Dot(beta, h["Sigma_x"])),
                       DotBuf(x, "beta"), beta),
            x, DotBuf(x, "beta"))
QuadForm(h, x, beta) ==
    IF h["Sigma_x"] = None THEN QuadFormNone(h, x, beta) ELSE QuadFormSigma(h, x, beta)

\* A slip: `< 1` for `<= 1`.
SigmaNeedsDim_strict(h) ==
    h["Sigma_x"] # None /\ (Ndim(h["beta"]) = 0 \/ LastAxis(h["beta"]) < 1)

\* The check both functions make (lines 105 and 172).
SigmaNeedsDim(h) ==
    h["Sigma_x"] # None /\ (Ndim(h["beta"]) = 0 \/ LastAxis(h["beta"]) <= 1)

\* ------------------------------------------- calc_input_param_lin_reg
\* return out[()]
ReturnOut(h, out) == Return(h, None, h[out])

\* One-dimensional input (lines 110-116).
LinRegOneDim(h) ==
    ReturnOut(
        InPlaceDivide(
            Store(h, AbsBuf("out", "beta"),
                  np_abs(IF Ndim(h["beta"]) = 2 THEN Col0(h["beta"])
                         ELSE IF Ndim(h["beta"]) = 1 THEN Row0(h["beta"])
                         ELSE h["beta"])),
            AbsBuf("out", "beta"),
            Mul(Sqrt(Div(G(h, "R_SQUARED"), Sub(One, G(h, "R_SQUARED")))),
                G(h, "sigma"))),
        AbsBuf("out", "beta"))

\* Lines 125-128, on the heap h the quadratic form (lines 119-124) left.
LinRegScale(h) ==
    ReturnOut(
        InPlaceScale(
            InPlaceSqrt(
                InPlaceDivide(
                    InPlaceScale(h, "out", Sub(One, G(h, "R_SQUARED"))),
                    "out", G(h, "R_SQUARED")),
                "out"),
            "out", G(h, "sigma")),
        "out")

\* Multidimensional input (lines 118-128).
LinRegMultiDim(h) == LinRegScale(QuadForm(h, "out", h["beta"]))

calc_input_param_lin_reg(h) ==
    IF SigmaNeedsDim(h) THEN Raise(h, "ValueError: Sigma")
    ELSE IF Ndim(h["beta"]) = 0 \/ LastAxis(h["beta"]) = 1 THEN LinRegOneDim(h)
    ELSE LinRegMultiDim(h)

\* ------------------------------------ calc_input_param_classification
\* A slip: the sign test turned round.
MeanShift_flipped(h, a, sbeta) ==
    IF Less(a, Zero) THEN Div(Sub(G(h, "DELTA_MAX"), a), sbeta)
    ELSE Div(Sub(Neg(G(h, "DELTA_MAX")), a), sbeta)

\* (s*DELTA_MAX - alpha_j) / sbeta with s = +1 if alpha_j > 0 else -1
\* (lines 198-201, 247-250, 285-288, 312-315).
MeanShift(h, a, sbeta) ==
    IF Less(Zero, a) THEN Div(Sub(G(h, "DELTA_MAX"), a), sbeta)
    ELSE Div(Sub(Neg(G(h, "DELTA_MAX")), a), sbeta)

\* np.abs(alpha) < DELTA_MAX
NoShift(h, a) == Less(AbsV(a), G(h, "DELTA_MAX"))

\* np.sqrt(2), kept exact
SQRT2 == Sqrt(Two)

\* Lines 185-194: ssbeta of the branch without mean adjustment.
SsbetaNoShift(h, beta) ==
    IF Ndim(beta) = 1
    THEN InPlaceSqrt(InPlaceScale(QuadForm(h, "ssbeta", beta), "ssbeta", Two), "ssbeta")
    ELSE Store(h, "ssbeta", Scale(np_abs(beta), SQRT2))

\* Lines 202-211: ssbeta of the branch with mean adjustment.
SsbetaShift(h, beta) ==
    IF Ndim(beta) = 1
    THEN InPlaceSqrt(QuadForm(h, "ssbeta", beta), "ssbeta")
    ELSE Store(h, "ssbeta", np_abs(beta))

\* A slip: the result of a single group never wrapped in an array.
ReturnSingle_scalar(h, mu_x, sigma_x, scalar_output) ==
    Return(h, Arr0(mu_x), Arr0(sigma_x))

\* Lines 213-215 and 318.
ReturnSingle(h, mu_x, sigma_x, scalar_output) ==
    IF scalar_output THEN Return(h, Arr0(mu_x), Arr0(sigma_x))
    ELSE Return(h, Arr1(<<mu_x>>), Arr1(<<sigma_x>>))

\* Line 195, on the heap h that holds ssbeta.
SingleNoShift(h, alpha, scalar_output) ==
    ReturnSingle(h, Zero,
                 Div(Add(G(h, "LOGITP0"), AbsV(alpha)),
                     Mul(G(h, "ERFINVGAMMA0"), h["ssbeta"].v[1])),
                 scalar_output)

\* Lines 198-201 and 212, on the heap h that holds ssbeta.
SingleShift(h, alpha, beta, scalar_output) ==
    ReturnSingle(h, MeanShift(h, alpha, SumAll(beta).v[1]),
                 Div(G(h, "SIGMA_F0"), h["ssbeta"].v[1]),
                 scalar_output)

\* Single group (lines 178-215).
SingleGroupOf(h, alpha, beta, scalar_output) ==
    IF NoShift(h, alpha)
    THEN SingleNoShift(SsbetaNoShift(h, beta), alpha, scalar_output)
    ELSE SingleShift(SsbetaShift(h, beta), alpha, beta, scalar_output)

SingleGroup(h, scalar_output) ==
    SingleGroupOf(h, Squeeze(h["alpha"]).v[1], Squeeze(h["beta"]), scalar_output)

\* np.zeros(J)
Zeros(J) == Arr1([j \in 1..J |-> Zero])

\* return mu_x, sigma_x (line 318), both held in buffers
ReturnBufs(h, mu, sig) == Return(h, h[mu], h[sig])
ReturnZeros(h, J, sig) == Return(h, Zeros(J), h[sig])

\* Lines 229-243: common alpha, no mean adjustment.
CommonAlphaNoShift(h, J, a, beta) ==
    ReturnZeros(
        InPlaceDivide(
            InPlaceScale(
                IF beta.shape[2] # 1
                THEN InPlaceSqrt(
                         InPlaceScale(QuadForm(h, "sigma_x", beta), "sigma_x", Two),
                         "sigma_x")
                ELSE Store(h, AbsBuf("sigma_x", "beta"),
                           Scale(np_abs(Col0(beta)), SQRT2)),
                "sigma_x", G(h, "ERFINVGAMMA0")),
            "sigma_x", Add(G(h, "LOGITP0"), AbsV(a))),
        J, "sigma_x")

\* Lines 246-250: mu_x = np.sum(beta, axis=-1), divided in place.
CommonAlphaMu(h, a, beta) ==
    InPlaceDivide(
        Store(h, SumBuf("mu_x", "beta"), SumLast(beta)),
        SumBuf("mu_x", "beta"),
        IF Less(Zero, a) THEN Sub(G(h, "DELTA_MAX"), a)
        ELSE Sub(Neg(G(h, "DELTA_MAX")), a))

\* Lines 251-262: sigma_x of the branch with mean adjustment.
CommonAlphaSigma(h, beta) ==
    InPlaceDivide(
        IF beta.shape[2] # 1
        THEN InPlaceSqrt(QuadForm(h, "sigma_x", beta), "sigma_x")
        ELSE Store(h, AbsBuf("sigma_x", "beta"), np_abs(Col0(beta))),
        "sigma_x", G(h, "SIGMA_F0"))

\* Common alpha, beta of J rows (lines 225-262).
CommonAlpha(h, J, alpha, beta) ==
    IF NoShift(h, alpha.v[1]) THEN CommonAlphaNoShift(h, J, alpha.v[1], beta)
    ELSE ReturnBufs(CommonAlphaSigma(CommonAlphaMu(h, alpha.v[1], beta), beta),
                    SumBuf("mu_x", "beta"), "sigma_x")

\* The per-group loop of lines 279-289 and 306-316: sbeta, ssbeta and divisor
\* hold one value (common beta) or one per row of beta; group j reads element j
\* and an index past the end raises IndexError.
GroupLoop(h, J, alpha, sbeta, ssbeta, divisor, perRow) ==
    LET At(x, j) == IF perRow THEN x.v[j] ELSE x.v[1]
        mu(j) == IF NoShift(h, alpha.v[j]) THEN Zero
                 ELSE MeanShift(h, alpha.v[j], At(sbeta, j))
        sg(j) == IF NoShift(h, alpha.v[j])
                 THEN Div(Add(G(h, "LOGITP0"), AbsV(alpha.v[j])), At(divisor, j))
                 ELSE Div(G(h, "SIGMA_F0"), At(ssbeta, j))
    IN  IF perRow /\ J > Len(sbeta.v) THEN Raise(h, "IndexError")
        ELSE Return(h, Arr1([j \in 1..J |-> mu(j)]), Arr1([j \in 1..J |-> sg(j)]))

\* A slip: np.sqrt(2) left out of the divisor.
Divisor_noSqrt2(h) == Scale(h["ssbeta"], G(h, "ERFINVGAMMA0"))

\* Lines 276 and 303: divisor = np.sqrt(2) * ERFINVGAMMA0 * ssbeta.
Divisor(h) == Scale(h["ssbeta"], Mul(SQRT2, G(h, "ERFINVGAMMA0")))

\* Lines 267-275: ssbeta of the common beta.
CommonBetaSs(h, beta) ==
    IF beta.shape[1] # 1
    THEN InPlaceSqrt(QuadForm(h, "ssbeta", beta), "ssbeta")
    ELSE Store(h, AbsBuf("ssbeta", "beta"), np_abs(beta))

\* Lines 276-289, on the heap h that holds ssbeta.
CommonBetaLoop(h, J, alpha, beta) ==
    GroupLoop(h, J, alpha, SumAll(beta), h["ssbeta"], Divisor(h), FALSE)

\* Common beta, alpha of length J (lines 264-289).
CommonBeta(h, J, alpha, beta) == CommonBetaLoop(CommonBetaSs(h, beta), J, alpha, beta)

\* Lines 294-302: ssbeta of each row of beta.
BothVarySs(h, beta) ==
    IF beta.shape[2] # 1
    THEN InPlaceSqrt(QuadForm(h, "ssbeta", beta), "ssbeta")
    ELSE Store(h, AbsBuf("ssbeta", "beta"), np_abs(Col0(beta)))

\* Lines 293 and 303-316, on the heap h that holds ssbeta.
BothVaryLoop(h, J, alpha, beta) ==
    GroupLoop(h, J, alpha, SumLast(beta), h["ssbeta"], Divisor(h), TRUE)

\* Alpha of length J and beta of several rows (lines 291-316).
BothVary(h, J, alpha, beta) == BothVaryLoop(BothVarySs(h, beta), J, alpha, beta)

\* Lines 219-223: the views of alpha and beta the branches work on.
MultiAlpha(h) == Squeeze(h["alpha"])
MultiBeta(b) ==
    IF Ndim(b) = 2 /\ b.shape[1] = 1 THEN Row0(b)
    ELSE IF Ndim(b) = 0 THEN NewAxis(b)
    ELSE b

MultiGroupOf(h, J, alpha, beta) ==
    IF Ndim(alpha) = 0 THEN CommonAlpha(h, J, alpha, beta)
    ELSE IF Ndim(beta) = 1 THEN CommonBeta(h, J, alpha, beta)
    ELSE BothVary(h, J, alpha, beta)

\* Multiple groups (lines 217-316).
MultiGroup(h, J) == MultiGroupOf(h, J, MultiAlpha(h), MultiBeta(h["beta"]))

\* The number of groups (lines 162-167).
GroupCount(alpha, beta) ==
    IF Ndim(alpha) = 1 /\ alpha.shape[1] # 1 THEN alpha.shape[1]
    ELSE IF Ndim(beta) = 2 /\ beta.shape[1] # 1 THEN beta.shape[1]
    ELSE 1

\* Lines 168-171.
ScalarOutput(alpha, beta) == Ndim(alpha) = 0 /\ Ndim(beta) < 2

calc_input_param_classification(h) ==
    IF Ndim(h["alpha"]) > 1 \/ Ndim(h["beta"]) > 2 THEN Raise(h, "ValueError: Dimension")
    ELSE IF SigmaNeedsDim(h) THEN Raise(h, "ValueError: Sigma")
    ELSE IF GroupCount(h["alpha"], h["beta"]) = 1
         THEN SingleGroup(h, ScalarOutput(h["alpha"], h["beta"]))
    ELSE MultiGroup(h, GroupCount(h["alpha"], h["beta"]))

\* ------------------------------------------------------ rand_corr_vine
\* Fixed point: FIX units per 1.0.
FIX == 100
\* The defaults of the parameters pmin and pmax (line 32), in fixed point.
pmin == -80
pmax == 80
\* The values rand_state.beta may return (in [0, 1], fixed point).
UVals == {10, 80}
\* What the uninitialised cells of np.empty((d, d)) may hold.
Garbage == {0, 77}

FMul(a, b) == (a * b) \div FIX
\* np.sqrt in fixed point, rounded down.
FSqrt(x) == CHOOSE r \in 0..(2 * FIX) : r * r <= x * FIX /\ x * FIX < (r + 1) * (r + 1)

\* Position (from 1) of the pair (a, b), a < b, in np.triu_indices(d, 1).
TriuPos(a, b, d) == a * d - ((a * (a + 1)) \div 2) + (b - a)
NPairs(d) == (d * (d - 1)) \div 2

\* Lines 52-54: the draws u of rand_state.beta, scaled and shifted.
Betas(d, u) == [m \in 1..NPairs(d) |-> FMul(u[m], pmax - pmin) + pmin]

\* Lines 50-58: P after sampling: betas in the upper triangle, their squares
\* in the lower, and g, what np.empty left there, in the cells never assigned.
FillP(d, betas, g) ==
    [a \in 0..(d - 1) |-> [b \in 0..(d - 1) |->
        IF a < b THEN betas[TriuPos(a, b, d)]
        ELSE IF b < a THEN FMul(betas[TriuPos(b, a, d)], betas[TriuPos(b, a, d)])
        ELSE g]]
SampleP(d, u, g) == FillP(d, Betas(d, u), g)

\* Line 62: np.eye(d).
Eye(d) == [a \in 0..(d - 1) |-> [b \in 0..(d - 1) |-> IF a = b THEN FIX ELSE 0]]

\* Lines 68-69: one pass of the loop over k.
Combine(c, Pm, ii, jj, kk) ==
    FMul(c, FSqrt(FMul(FIX - Pm[ii][kk], FIX - Pm[jj][kk]))) + FMul(Pm[kk][ii], Pm[kk][jj])

\* A slip: line 71 left out.
StorePair_oneSided(Cm, ii, jj, c) == [Cm EXCEPT ![ii] = [@ EXCEPT ![jj] = c]]

\* Lines 70-71: C[i, j] = cur; C[j, i] = cur.
StorePair(Cm, ii, jj, c) ==
    [Cm EXCEPT ![ii] = [@ EXCEPT ![jj] = c], ![jj] = [@ EXCEPT ![ii] = c]]

\* A slip: the rows permuted and the columns not.
Permuted_rowsOnly(Cm, p) == [a \in DOMAIN Cm |-> [b \in DOMAIN Cm |-> Cm[p[a]][b]]]

\* Line 76: C[np.ix_(perm, perm)].
Permuted(Cm, p) == [a \in DOMAIN Cm |-> [b \in DOMAIN Cm |-> Cm[p[a]][p[b]]]]

\* What rand_state.permutation(d) may return.
Perms(d) ==
    {p \in [0..(d - 1) -> 0..(d - 1)] : \A a, b \in 0..(d - 1) : p[a] = p[b] => a = b}

\* Lines 45-48: the generator the call draws from is the caller's instance when
\* seed is one, and otherwise a new one; never numpy's global generator.
RandState(sd) == IF sd.kind = "RandomState" THEN "seed" ELSE "own"
\* The call `method` made on generator `gen`, recorded on the caller's instance
\* and on the global generator.
DrawSeed(sd, gen, method) ==
    IF gen = "seed" THEN [sd EXCEPT !.log = Append(@, method)] ELSE sd
DrawGlobal(glob, gen, method) ==
    IF gen = "global" THEN Append(glob, method) ELSE glob
\* ------------------------------------------------- the caller's inputs
\* Intercepts on both sides of DELTA_MAX and on it.
AlphaVals == <<Num(0 - 2), Rat(0 - 1, 2), Zero, DELTA_MAX, Num(2)>>
\* Slopes, with rows that sum to zero and rows of zeros among them.
BetaVals == <<Num(0 - 1), One, Two, Zero>>
SigmaVals == {One, Rat(3, 2)}

\* Sequences of length n stepping through vals from position s by t.
Stepped(vals, n, s, t) == [q \in 1..n |-> vals[((s + t * (q - 1)) % Len(vals)) + 1]]

AlphaSeqs(n) == {Stepped(AlphaVals, n, s, t) : s \in 0..4, t \in 0..1}
BetaRows(D) == {Stepped(BetaVals, D, s, t) : s \in 0..3, t \in 0..1}
\* R rows of length D; u = 0 gives R identical rows.
BetaMatrices(R, D) ==
    {Arr2([q \in 1..R |-> Stepped(BetaVals, D, s + u * (q - 1), t)], D) :
        s \in 0..3, t \in 0..1, u \in 0..1}

\* alpha: a scalar, a vector of 0..MaxJ entries, or (rank too high) a matrix.
AlphaArgs ==
    {Arr0(AlphaVals[q]) : q \in 1..5}
    \cup UNION {{Arr1(a) : a \in AlphaSeqs(n)} : n \in 0..MaxJ}
    \cup {Arr2(<<<<Zero>>>>, 1)}

\* beta: a scalar, a vector of 0..MaxD entries, a matrix of 0..MaxJ rows and
\* 1..MaxD columns, or (rank too high) an array of shape (1, 1, 2).
BetaArgs ==
    {Arr0(BetaVals[q]) : q \in 1..4}
    \cup UNION {{Arr1(b) : b \in BetaRows(D)} : D \in 0..MaxD}
    \cup UNION {BetaMatrices(R, D) : R \in 0..MaxJ, D \in 1..MaxD}
    \cup {[shape |-> <<1, 1, 2>>, v |-> <<One, Two>>]}

\* The D x D identity and a D x D matrix that is not symmetric.
Identity(D) == Arr2([a \in 1..D |-> [b \in 1..D |-> IF a = b THEN One ELSE Zero]], D)
Skew(D) ==
    Arr2([a \in 1..D |-> [b \in 1..D |->
            IF a = b THEN Two ELSE IF b = a + 1 THEN One ELSE Zero]], D)
\* Sigma_x: None, or a D x D matrix for the D of beta (1 x 1 for a scalar beta).
InputDim(beta) == IF Ndim(beta) = 0 \/ LastAxis(beta) = 0 THEN 1 ELSE LastAxis(beta)
SigmaXArgs(beta) == {None, Identity(InputDim(beta)), Skew(InputDim(beta))}

\* ---------------------------------------------------------- the state
VARIABLES
    pc,         \* "idle", "pair", "k", "perm" (inside rand_corr_vine), "returned"
    call,       \* the call being made or last made: its name and arguments
    heap,       \* the caller's argument arrays and the module's globals
    result,     \* what the last calibration call returned or raised
    np_random,  \* the calls made on numpy's global generator
    seed,       \* the seed argument of rand_corr_vine
    d, P, C, cur, i, j, k,   \* the locals of rand_corr_vine
    sampled,    \* P as it was when the sampling (line 58) ended
    perm, Cpre  \* the permutation drawn and C before it was applied

vars == <<pc, call, heap, result, np_random, seed, d, P, C, cur, i, j, k,
          sampled, perm, Cpre>>
vineLocals == <<d, P, C, cur, i, j, k, sampled, perm, Cpre>>

NoCall == [fn |-> "none", args |-> [b \in ArgNames |-> None]]
NoResult == [status |-> "none", mu_x |-> None, sigma_x |-> None]
NoSeed == [kind |-> "none", log |-> <<>>]
ModuleHeap ==
    [b \in BufNames |-> IF b \in ModuleNames THEN Arr0(ModuleValue(b)) ELSE None]

Init ==
    /\ pc = "idle"
    /\ call = NoCall
    /\ heap = ModuleHeap
    /\ result = NoResult
    /\ np_random = <<>>
    /\ seed = NoSeed
    /\ d = 0 /\ P = <<>> /\ C = <<>> /\ cur = 0 /\ i = 0 /\ j = 0 /\ k = 0
    /\ sampled = <<>> /\ perm = <<>> /\ Cpre = <<>>

\* The caller's arrays put on the heap for a call.
WithArgs(h, a) == [b \in BufNames |-> IF b \in ArgNames THEN a[b] ELSE h[b]]

\* The function named fn applied to the heap h.
Apply(fn, h) ==
    IF fn = "lin_reg" THEN calc_input_param_lin_reg(h)
    ELSE calc_input_param_classification(h)

\* The call has returned r: the heap it left and its result.
Returned(r) ==
    /\ heap' = r.heap
    /\ result' = [status |-> r.status, mu_x |-> r.mu_x, sigma_x |-> r.sigma_x]

\* The caller calls fn with the arrays a.
Called(fn, a) ==
    /\ call' = [fn |-> fn, args |-> a]
    /\ Returned(Apply(fn, WithArgs(heap, a)))

\* A whole call of calc_input_param_lin_reg(beta, sigma, Sigma_x).
CallLinReg ==
    /\ pc = "idle"
    /\ \E beta \in BetaArgs, sigma \in SigmaVals :
       \E Sigma_x \in SigmaXArgs(beta) :
          Called("lin_reg", [alpha |-> None, beta |-> beta, sigma |-> Arr0(sigma),
                             Sigma_x |-> Sigma_x])
    /\ pc' = "returned"
    /\ UNCHANGED <<np_random, seed, vineLocals>>

\* A whole call of calc_input_param_classification(alpha, beta, Sigma_x).
CallClassification ==
    /\ pc = "idle"
    /\ \E alpha \in AlphaArgs, beta \in BetaArgs :
       \E Sigma_x \in SigmaXArgs(beta) :
          Called("classification", [alpha |-> alpha, beta |-> beta, sigma |-> None,
                                    Sigma_x |-> Sigma_x])
    /\ pc' = "returned"
    /\ UNCHANGED <<np_random, seed, vineLocals>>

\* rand_corr_vine(d, seed=...), lines 45-62: the generator, the sampling, C.
VineStart ==
    /\ pc = "idle"
    /\ \E dd \in 1..MaxDim, kind \in {"RandomState", "int"}, g \in Garbage :
       \E u \in [1..NPairs(dd) -> UVals] :
          /\ d' = dd
          /\ P' = SampleP(dd, u, g)
          /\ sampled' = P'
          /\ seed' = DrawSeed([kind |-> kind, log |-> <<>>],
                              RandState([kind |-> kind, log |-> <<>>]), "beta")
          /\ np_random' = DrawGlobal(np_random,
                                     RandState([kind |-> kind, log |-> <<>>]), "beta")
          /\ C' = Eye(dd)
          /\ pc' = IF dd >= 2 THEN "pair" ELSE "perm"
    /\ call' = [fn |-> "rand_corr_vine", args |-> [b \in ArgNames |-> None]]
    /\ i' = 0 /\ j' = 1 /\ k' = 0 /\ cur' = 0
    /\ result' = NoResult
    /\ UNCHANGED <<heap, perm, Cpre>>

\* Line 66: cur = P[i, j], and the loop over k starts at i - 1.
VinePair ==
    /\ pc = "pair"
    /\ cur' = P[i][j]
    /\ k' = i - 1
    /\ pc' = "k"
    /\ UNCHANGED <<call, heap, result, np_random, seed, d, P, C, i, j, sampled,
                   perm, Cpre>>

\* Lines 67-69: one pass of the loop over k.
VineK ==
    /\ pc = "k" /\ k >= 0
    /\ cur' = Combine(cur, P, i, j, k)
    /\ k' = k - 1
    /\ UNCHANGED <<pc, call, heap, result, np_random, seed, d, P, C, i, j,
                   sampled, perm, Cpre>>

\* The loop as the in-place variant would have it: the combined value is also
\* written into the lower triangle of P.
VineStore_overwritesP ==
    /\ pc = "k" /\ k < 0
    /\ C' = StorePair(C, i, j, cur)
    /\ P' = [P EXCEPT ![j] = [@ EXCEPT ![i] = cur]]
    /\ IF j + 1 < d THEN /\ j' = j + 1 /\ i' = i /\ pc' = "pair"
       ELSE IF i + 1 < d - 1 THEN /\ i' = i + 1 /\ j' = i + 2 /\ pc' = "pair"
       ELSE /\ i' = i /\ j' = j /\ pc' = "perm"
    /\ UNCHANGED <<call, heap, result, np_random, seed, d, cur, k, sampled,
                   perm, Cpre>>

\* Lines 70-71, and the step of the loops over j and i (lines 64-65).
VineStore ==
    /\ pc = "k" /\ k < 0
    /\ C' = StorePair(C, i, j, cur)
    /\ IF j + 1 < d THEN /\ j' = j + 1 /\ i' = i /\ pc' = "pair"
       ELSE IF i + 1 < d - 1 THEN /\ i' = i + 1 /\ j' = i + 2 /\ pc' = "pair"
       ELSE /\ i' = i /\ j' = j /\ pc' = "perm"
    /\ UNCHANGED <<call, heap, result, np_random, seed, d, P, cur, k, sampled,
                   perm, Cpre>>

\* Lines 73-77: del P, the permutation, the return.
VinePermute ==
    /\ pc = "perm"
    /\ \E p \in Perms(d) :
          /\ perm' = p
          /\ Cpre' = C
          /\ C' = Permuted(C, p)
    /\ P' = <<>> /\ sampled' = <<>>
    /\ seed' = DrawSeed(seed, RandState(seed), "permutation")
    /\ np_random' = DrawGlobal(np_random, RandState(seed), "permutation")
    /\ pc' = "returned"
    /\ UNCHANGED <<call, heap, result, d, cur, i, j, k>>

\* The caller drops the arguments and the result of the call that returned.
Discard ==
    /\ pc = "returned"
    /\ pc' = "idle"
    /\ call' = NoCall
    /\ heap' = WithArgs(heap, NoCall.args)
    /\ result' = NoResult
    /\ seed' = NoSeed
    /\ d' = 0 /\ P' = <<>> /\ C' = <<>> /\ cur' = 0 /\ i' = 0 /\ j' = 0 /\ k' = 0
    /\ sampled' = <<>> /\ perm' = <<>> /\ Cpre' = <<>>
    /\ UNCHANGED np_random

Next ==
    \/ CallLinReg
    \/ CallClassification
    \/ VineStart
    \/ VinePair
    \/ VineK
    \/ VineStore
    \/ VinePermute
    \/ Discard

Spec == Init /\ [][Next]_vars
\* ---------------------------------------------------------- properties
ReturnedFrom(fn) == pc = "returned" /\ call.fn = fn
ValueErrors == {"ValueError: Sigma", "ValueError: Dimension"}
Dims == 0..(d - 1)

\* C1: the matrix rand_corr_vine returns is symmetric with every diagonal
\* entry 1, and for d = 1 it is the 1 x 1 identity.
C1_SymmetricUnitDiagonal ==
    ReturnedFrom("rand_corr_vine") =>
        /\ DOMAIN C = Dims
        /\ \A a \in Dims : DOMAIN C[a] = Dims /\ C[a][a] = FIX
        /\ \A a, b \in Dims : C[a][b] = C[b][a]
        /\ d = 1 => C = (0 :> (0 :> FIX))

C1_Witness ==
    /\ ReturnedFrom("rand_corr_vine") /\ d = 4
    /\ perm[0] # 0
    /\ \E a, b \in Dims : a # b /\ C[a][b] # 0 /\ C[a][b] # C[0][d - 1]

\* The number of off-diagonal cells of M that hold v.
OffDiagCount(M, v) ==
    Cardinality({ab \in Dims \X Dims : ab[1] # ab[2] /\ M[ab[1]][ab[2]] = v})

\* C2: the returned matrix is C before the permutation with one permutation
\* perm of 0..d-1 applied to rows and columns, C_out[a][b] =
\* C_pre[perm[a]][perm[b]], so both hold the same multiset of off-diagonal values.
C2_SamePermutationRowsAndColumns ==
    ReturnedFrom("rand_corr_vine") =>
        /\ DOMAIN perm = Dims
        /\ \A a \in Dims : \E b \in Dims : perm[b] = a
        /\ \A a, b \in Dims : C[a][b] = Cpre[perm[a]][perm[b]]
        /\ \A a, b \in Dims : OffDiagCount(C, Cpre[a][b]) = OffDiagCount(Cpre, Cpre[a][b])

C2_Witness ==
    /\ ReturnedFrom("rand_corr_vine") /\ d >= 3
    /\ C # Cpre
    /\ \E a \in Dims : perm[a] # a

\* Sigma_x is supplied and the input dimension is not greater than 1.
SigmaWithOneDim ==
    /\ call.args.Sigma_x # None
    /\ Ndim(call.args.beta) = 0 \/ LastAxis(call.args.beta) <= 1

\* C3: in both calibration functions a call with Sigma_x supplied and an input
\* dimension not greater than 1 raises ValueError and returns nothing; a call
\* with Sigma_x None or a last axis of beta longer than 1 does not raise it.
C3_SigmaNeedsDimensionAboveOne ==
    (ReturnedFrom("lin_reg") \/ ReturnedFrom("classification")) =>
        IF SigmaWithOneDim
        THEN /\ result.status \in ValueErrors
             /\ result.mu_x = None /\ result.sigma_x = None
        ELSE result.status # "ValueError: Sigma"

C3_Witness ==
    /\ ReturnedFrom("classification")
    /\ Ndim(call.args.beta) = 2 /\ call.args.beta.shape[1] = 2
    /\ LastAxis(call.args.beta) = 1
    /\ call.args.Sigma_x # None
    /\ result.status = "ValueError: Sigma"

\* alpha is a vector of length J > 1 and beta a matrix whose number of rows is
\* neither 1 nor J.
RowsMismatch ==
    /\ Ndim(call.args.alpha) = 1 /\ call.args.alpha.shape[1] > 1
    /\ Ndim(call.args.beta) = 2
    /\ call.args.beta.shape[1] \notin {1, call.args.alpha.shape[1]}

\* C4: calc_input_param_classification rejects a dimension mismatch with a
\* ValueError at the top of the call: with alpha of length J > 1 and beta of a
\* number of rows that is neither 1 nor J it raises a validation error.
C4_MismatchRejected ==
    (ReturnedFrom("classification") /\ RowsMismatch) => result.status \in ValueErrors

\* The cases of C4 the code does not reject: it returns a result computed from
\* the first J rows, or fails in the per-group loop with an IndexError.
C4_FailsInLoop ==
    /\ ReturnedFrom("classification") /\ RowsMismatch
    /\ call.args.Sigma_x = None
    /\ result.status = "IndexError"
    /\ call.args.beta.shape[1] > 0
\* ------------------------------------------------ classification, groups
AllSame(seq) == \A q \in 1..Len(seq) : seq[q] = seq[1]
RowsSame(b) == \A r \in 1..NRows(b) : RowOf(b, r) = RowOf(b, 1)

\* The three multi-group forms with J > 1 identical groups.
CommonAlphaForm ==
    /\ Ndim(call.args.alpha) = 0
    /\ Ndim(call.args.beta) = 2 /\ NRows(call.args.beta) > 1
    /\ RowsSame(call.args.beta)
CommonBetaForm ==
    /\ Ndim(call.args.alpha) = 1 /\ Len(call.args.alpha.v) > 1
    /\ AllSame(call.args.alpha.v)
    /\ \/ Ndim(call.args.beta) \in {0, 1}
       \/ Ndim(call.args.beta) = 2 /\ NRows(call.args.beta) = 1
BothVaryForm ==
    /\ Ndim(call.args.alpha) = 1 /\ Len(call.args.alpha.v) > 1
    /\ AllSame(call.args.alpha.v)
    /\ Ndim(call.args.beta) = 2
    /\ NRows(call.args.beta) = Len(call.args.alpha.v)
    /\ RowsSame(call.args.beta)
IdenticalGroups == CommonAlphaForm \/ CommonBetaForm \/ BothVaryForm

GroupsGiven ==
    IF Ndim(call.args.alpha) = 1 THEN Len(call.args.alpha.v)
    ELSE NRows(call.args.beta)

\* The single-group call on the group all J groups are equal to.
OneGroupArgs ==
    [alpha   |-> Arr0(call.args.alpha.v[1]),
     beta    |-> IF Ndim(call.args.beta) = 0 THEN call.args.beta
                 ELSE Arr1(RowOf(call.args.beta, 1)),
     sigma   |-> call.args.sigma,
     Sigma_x |-> call.args.Sigma_x]
OneGroupResult == calc_input_param_classification(WithArgs(ModuleHeap, OneGroupArgs))
Repeated(x, n) == Arr1([q \in 1..n |-> x.v[1]])
SameAsOneGroup(single) ==
    IF single.status = "ok"
    THEN /\ result.status = "ok"
         /\ result.mu_x = Repeated(single.mu_x, GroupsGiven)
         /\ result.sigma_x = Repeated(single.sigma_x, GroupsGiven)
    ELSE result.status = single.status

\* C5: a multi-group call whose J > 1 groups are identical (common alpha
\* with J equal rows of beta, J equal alphas with a common beta, or both
\* given per group) returns length-J arrays every entry of which equals the
\* mu_x and sigma_x of the single-group call on that pair, shift or no shift.
C5_GroupsAgreeWithSingleGroup ==
    (ReturnedFrom("classification") /\ IdenticalGroups) => SameAsOneGroup(OneGroupResult)

C5_Witness ==
    /\ ReturnedFrom("classification") /\ BothVaryForm
    /\ Len(call.args.alpha.v) = 3 /\ LastAxis(call.args.beta) = 2
    /\ call.args.Sigma_x \notin {None, Identity(2)}
    /\ result.status = "ok"
    /\ IsFinite(result.mu_x.v[3]) /\ result.mu_x.v[3] # Zero
    /\ IsFinite(result.sigma_x.v[3])

\* alpha and the coefficient row of group q, as the arguments give them.
AlphaOf(q) ==
    IF Ndim(call.args.alpha) = 1 /\ Len(call.args.alpha.v) > 1
    THEN call.args.alpha.v[q] ELSE call.args.alpha.v[1]
BetaRowOf(q) ==
    IF Ndim(call.args.beta) = 2 /\ NRows(call.args.beta) > 1
    THEN RowOf(call.args.beta, q) ELSE call.args.beta.v
Bound(a) == IF Less(Zero, a) THEN DELTA_MAX ELSE Neg(DELTA_MAX)
ShiftRule(a, sb, m) ==
    IF Less(AbsV(a), DELTA_MAX) THEN m = Zero
    ELSE /\ Mul(m, sb) = Sub(Bound(a), a)
         /\ Add(a, Mul(sb, m)) = Bound(a)
         /\ ~Less(AbsV(a), AbsV(Add(a, Mul(sb, m))))

\* C6: for every group j whose coefficients do not sum to 0, mu_x[j] = 0 when
\* |alpha_j| < DELTA_MAX, and otherwise mu_x[j] * sum(beta_j) =
\* s * DELTA_MAX - alpha_j with s = +1 for alpha_j > 0 and -1 for alpha_j <= 0,
\* so that alpha_j + sum(beta_j) * mu_x[j] has the sign of alpha_j, magnitude
\* DELTA_MAX, and is no larger in magnitude than alpha_j.
C6_MeanShiftRule ==
    (ReturnedFrom("classification") /\ result.status = "ok") =>
        \A q \in 1..Len(result.mu_x.v) :
            SumSeq(BetaRowOf(q)) # Zero =>
                ShiftRule(AlphaOf(q), SumSeq(BetaRowOf(q)), result.mu_x.v[q])

C6_Witness ==
    /\ ReturnedFrom("classification") /\ result.status = "ok"
    /\ Ndim(call.args.alpha) = 1 /\ Ndim(call.args.beta) = 2
    /\ \E q, r \in 1..Len(result.mu_x.v) :
          /\ SumSeq(BetaRowOf(q)) # Zero /\ SumSeq(BetaRowOf(r)) # Zero
          /\ Less(AlphaOf(q), Neg(DELTA_MAX)) /\ result.mu_x.v[q] # Zero
          /\ Less(AbsV(AlphaOf(r)), DELTA_MAX) /\ result.mu_x.v[r] = Zero

\* C7: for an input dimension D >= 2, calc_input_param_lin_reg with Sigma_x the
\* D x D identity returns the sigma_x it returns with Sigma_x = None.
C7_IdentitySigmaIsNone ==
    ( /\ ReturnedFrom("lin_reg")
      /\ Ndim(call.args.beta) >= 1 /\ LastAxis(call.args.beta) >= 2
      /\ call.args.Sigma_x = Identity(LastAxis(call.args.beta)) ) =>
        /\ result.status = "ok"
        /\ result.sigma_x =
             calc_input_param_lin_reg(
                 WithArgs(ModuleHeap, [call.args EXCEPT !.Sigma_x = None])).sigma_x

C7_Witness ==
    /\ ReturnedFrom("lin_reg")
    /\ Ndim(call.args.beta) = 2 /\ NRows(call.args.beta) >= 2
    /\ LastAxis(call.args.beta) = 2
    /\ call.args.Sigma_x = Identity(2)
    /\ \E q \in 1..Len(call.args.beta.v) : Less(call.args.beta.v[q], Zero)
    /\ result.status = "ok"
    /\ \A q \in 1..Len(result.sigma_x.v) : IsFinite(result.sigma_x.v[q])

\* C8: a call of calc_input_param_classification that returns has both outputs
\* of shape (J,) when beta is two-dimensional or alpha one-dimensional (J the
\* length of alpha if that is not 1, else the number of rows of a
\* two-dimensional beta, else 1), and both scalars otherwise.
GroupsReturned ==
    IF Ndim(call.args.alpha) = 1 /\ Len(call.args.alpha.v) # 1
    THEN Len(call.args.alpha.v)
    ELSE IF Ndim(call.args.beta) = 2 THEN call.args.beta.shape[1] ELSE 1
HasShape(x, shape) == x.shape = shape /\ Len(x.v) = Prod(shape)
C8_OutputShape ==
    (ReturnedFrom("classification") /\ result.status = "ok") =>
        IF Ndim(call.args.beta) = 2 \/ Ndim(call.args.alpha) = 1
        THEN /\ HasShape(result.mu_x, <<GroupsReturned>>)
             /\ HasShape(result.sigma_x, <<GroupsReturned>>)
        ELSE /\ HasShape(result.mu_x, <<>>)
             /\ HasShape(result.sigma_x, <<>>)

C8_Witness ==
    /\ ReturnedFrom("classification") /\ result.status = "ok"
    /\ Ndim(call.args.alpha) = 1 /\ Len(call.args.alpha.v) = 1
    /\ Ndim(call.args.beta) = 2 /\ call.args.beta.shape[1] = 1
    /\ result.mu_x.shape = <<1>>
\* ------------------------------------------------------------ vine loop
\* The value lines 66-69 compute for the pair (ii, jj) from the partial
\* correlations sampled into the upper triangle of Pm and their squares in the
\* lower triangle: the recursion from k = kk down to 0.
RECURSIVE Recombined(_, _, _, _, _)
Recombined(c, Pm, ii, jj, kk) ==
    IF kk < 0 THEN c
    ELSE Recombined(
             FMul(c, FSqrt(FMul(FIX - FMul(Pm[kk][ii], Pm[kk][ii]),
                                FIX - FMul(Pm[kk][jj], Pm[kk][jj]))))
               + FMul(Pm[kk][ii], Pm[kk][jj]),
             Pm, ii, jj, kk - 1)
InLoop == pc \in {"pair", "k", "perm"}
PairDone(a, b) == pc = "perm" \/ a < i \/ (a = i /\ b < j)

\* C9 as the spec states it: the loop overwrites the lower triangle of P in
\* place, and at step k it finds raw sampled partials at P[i,k] and P[j,k] and
\* the values already combined for the pairs (k,i) and (k,j) at P[k,i] and P[k,j].
C9_LowerTriangleOverwritten ==
    (pc = "k" /\ k >= 0) =>
        /\ P[i][k] = sampled[k][i] /\ P[j][k] = sampled[k][j]
        /\ P[k][i] = C[k][i] /\ P[k][j] = C[k][j]

\* C9, amended: the loop never writes P. At every step P is the sampled
\* matrix, whose lower-triangle cells P[i,k] and P[j,k] hold the squares of
\* the partials P[k,i] and P[k,j] of its upper triangle, and the value stored
\* for a finished pair (a, b) is the recursion over those sampled partials
\* alone, whatever was stored in C for earlier pairs.
C9_PNeverWritten ==
    InLoop =>
        /\ P = sampled
        /\ \A a, b \in Dims : a < b => P[b][a] = FMul(P[a][b], P[a][b])
        /\ \A a, b \in Dims :
              (a < b /\ PairDone(a, b)) =>
                  C[a][b] = Recombined(sampled[a][b], sampled, a, b, a - 1)
        /\ (pc = "k" /\ k < 0) => cur = Recombined(sampled[i][j], sampled, i, j, i - 1)

C9_Witness ==
    /\ pc = "k" /\ k = 1 /\ i = 2 /\ j = 3
    /\ C[1][2] # P[1][2] /\ C[0][1] = P[0][1]
    /\ P[2][1] = FMul(P[1][2], P[1][2]) /\ P[2][1] # P[1][2]

\* C10: no call of the three functions changes state its caller can see:
\* the argument arrays hold what was passed, the module constants their
\* values, numpy's global random state is never drawn from, and an integer
\* seed stays what it was (draws reach only a generator the caller passed).
C10_NoObservableMutation ==
    /\ \A b \in ArgNames : heap[b] = call.args[b]
    /\ \A m \in ModuleNames : heap[m] = Arr0(ModuleValue(m))
    /\ np_random = <<>>
    /\ seed.kind = "int" => seed.log = <<>>

C10_Witness ==
    /\ ReturnedFrom("classification") /\ result.status = "ok"
    /\ Ndim(call.args.alpha) = 0 /\ Ndim(call.args.beta) = 2
    /\ NRows(call.args.beta) = 2 /\ LastAxis(call.args.beta) = 2
    /\ call.args.Sigma_x # None
    /\ ~Less(AbsV(call.args.alpha.v[1]), DELTA_MAX)
    /\ \E q \in 1..4 : Less(call.args.beta.v[q], Zero)
    /\ result.mu_x.v[1] # Zero
=============================================================================
